---- MODULE Spec2Model ----
(***************************************************************************)
(* Verification model of skylinex:                                         *)
(*   - the stack unwinder   (src/src/hooks/backtrace.rs, Backtrace::new)    *)
(*   - the module registry  (src/src/rtld/mod.rs)                           *)
(*   - the hook macros      (src/skyline-macro/src/hooks.rs, hooks/*.rs)    *)
(*   - the run-once shim and the assembly stub the hook macros generate     *)
(* Each subsystem has its own specification over the shared variables; a   *)
(* specification holds the other subsystems' variables at their idle value. *)
(***************************************************************************)
EXTENDS Integers, Sequences, FiniteSets, TLC

VARIABLES
    \* --- stack memory read by the unwinder, and the arguments of the call
    chainLen,      \* frames 1..chainLen are linked 1 -> 2 -> ... -> chainLen
    chainTail,     \* previous_frame of the last frame (0 = null, else a frame)
    arg_fp,        \* current_fp argument of Backtrace::new
    arg_lr,        \* current_lr argument
    arg_limit,     \* limit argument
    bt,            \* activation record of Backtrace::new (locals, position, result)
    \* --- loader state read by the module registry, and the last lookup
    regions,       \* the process memory map answered by nx::query_memory
    rodata,        \* the words and bytes at the start of a region, by address
    modules,       \* ModuleObject records, by pointer
    auto_front,    \* AUTO_LOAD_LIST.front
    manual_front,  \* MANUAL_LOAD_LIST.front
    lookup,        \* the last registry call and what it returned
    \* --- one hook declaration, its expansion and the statics it generates
    attrs,         \* HookAttributes of the declaration
    kind,          \* HookKind of the attribute macro used
    static_module, \* skex_memory_get_static_module_by_name finds the named module
    expansion,     \* what make_hook_internal decided and reported
    trampoline,    \* static mut trampoline: u64
    is_enabled,    \* static mut is_enabled: bool (precompiled-stub hooks)
    pending,       \* deferred installs the loader holds for the hook
    installed,     \* the engine or the loader has installed the hook before
    written,       \* what the last install or deferred completion stored
    flag_set,      \* what the last enable() or disable() of a stub hook set
    last,          \* the last operation on the hook and what it did
    \* --- threads inside the code the macros generate
    shim,          \* the ONCE static of a #[shim] function and its callers
    stub           \* the interceptions inside the assembly stub

vars == <<chainLen, chainTail, arg_fp, arg_lr, arg_limit, bt,
          regions, rodata, modules, auto_front, manual_front, lookup,
          attrs, kind, static_module, expansion, trampoline, is_enabled,
          pending, installed, written, flag_set, last, shim, stub>>

btVars   == <<chainLen, chainTail, arg_fp, arg_lr, arg_limit, bt>>
loaderVars == <<regions, rodata, modules, auto_front, manual_front>>
rtldVars == <<regions, rodata, modules, auto_front, manual_front, lookup>>
hookVars == <<attrs, kind, static_module, expansion, trampoline, is_enabled,
              pending, installed, written, flag_set, last>>
shimVars == <<shim>>
stubVars == <<stub>>

-----------------------------------------------------------------------------
(* Bounds of the model *)

\* longest chain of distinct frames in stack memory
MaxFrames == 36
\* largest limit argument tried
MaxLimit == 35
\* current_lr ranges over 0..MaxLr
MaxLr == 1

(* Program constants *)

\* limit = limit.max(32)
MinLimit == 32
\* backtrace: [Option<Result<BacktraceEntry, BacktraceError>>; 33]
Slots == 33

Null == 0

-----------------------------------------------------------------------------
(* Stack memory.  Whatever the frame-pointer graph is, the part of it that  *)
(* a walk from one frame can see is a path of distinct frames whose last    *)
(* frame points to null or back to a frame of the path; chainLen and        *)
(* chainTail enumerate these shapes.                                        *)

Frames == 1..chainLen

\* *ptr for a StackFrame pointer
Deref(p) ==
    [previous_frame |-> IF p \in Frames
                        THEN (IF p < chainLen THEN p + 1 ELSE chainTail)
                        ELSE Null,
     return_address |-> p]

\* Option<Result<BacktraceEntry, BacktraceError>> and Option<BacktraceEntry>
None == [tag |-> "None", ptr |-> Null, previous_frame |-> Null,
         return_address |-> 0, err |-> "-"]

ErrEntry(e) == [tag |-> "Err", ptr |-> Null, previous_frame |-> Null,
                return_address |-> 0, err |-> e]

\* BacktraceEntry::new(ptr): the pointer and a copy of the frame it points to
BacktraceEntry_new(p) ==
    [tag |-> "Ok", ptr |-> p, previous_frame |-> Deref(p).previous_frame,
     return_address |-> Deref(p).return_address, err |-> "-"]

\* let mut entries = [None; 33]
EmptyEntries == [i \in 0..(Slots - 1) |-> None]

\* a floor of 1 in place of 32
ClampLimit_FloorOne(l) == IF l > 1 THEN l ELSE 1

\* limit = limit.max(32)
ClampLimit(l) == IF l > MinLimit THEN l ELSE MinLimit

\* the activation before the call
Idle ==
    [pc |-> "start", current_fp |-> Null, prev_fp |-> Null, limit |-> 0,
     count |-> 0, entries |-> EmptyEntries, start_frame |-> None,
     ret |-> "Pending", iters |-> 0, derefs |-> {}]

\* the frame read before the null check
Prologue_DerefBeforeNullCheck(fp, lr, l) ==
    LET current_frame == Deref(fp)
        matches == current_frame.return_address = lr
    IN  IF fp = Null
        THEN [Idle EXCEPT !.pc = "returned", !.ret = "InitialFPNull",
                          !.derefs = {fp}]
        ELSE [pc          |-> "loop",
              current_fp  |-> IF matches THEN current_frame.previous_frame ELSE fp,
              prev_fp     |-> IF matches THEN fp ELSE Null,
              limit       |-> ClampLimit(l) - 1,
              count       |-> 0,
              entries     |-> EmptyEntries,
              start_frame |-> IF matches THEN BacktraceEntry_new(fp) ELSE None,
              ret         |-> "Pending",
              iters       |-> 0,
              derefs      |-> {fp}]

\* the frame pointer not advanced past the current frame
Prologue_NoAdvance(fp, lr, l) ==
    IF fp = Null
    THEN [Idle EXCEPT !.pc = "returned", !.ret = "InitialFPNull"]
    ELSE LET current_frame == Deref(fp)
             matches == current_frame.return_address = lr
         IN  [pc          |-> "loop",
              current_fp  |-> fp,
              prev_fp     |-> Null,
              limit       |-> ClampLimit(l) - 1,
              count       |-> 0,
              entries     |-> EmptyEntries,
              start_frame |-> IF matches THEN BacktraceEntry_new(fp) ELSE None,
              ret         |-> "Pending",
              iters       |-> 0,
              derefs      |-> {fp}]

\* Backtrace::new up to the head of the while loop
Prologue(fp, lr, l) ==
    IF fp = Null
    THEN [Idle EXCEPT !.pc = "returned", !.ret = "InitialFPNull"]
    ELSE LET current_frame == Deref(fp)
             matches == current_frame.return_address = lr
         IN  [pc          |-> "loop",
              current_fp  |-> IF matches THEN current_frame.previous_frame ELSE fp,
              prev_fp     |-> IF matches THEN fp ELSE Null,
              limit       |-> ClampLimit(l) - 1,
              count       |-> 0,
              entries     |-> EmptyEntries,
              start_frame |-> IF matches THEN BacktraceEntry_new(fp) ELSE None,
              ret         |-> "Pending",
              iters       |-> 0,
              derefs      |-> {fp}]

\* entries[count] = Some(e): an index past the array panics
Store(s, e) ==
    IF s.count < Slots
    THEN [s EXCEPT !.entries[s.count] = e]
    ELSE [s EXCEPT !.pc = "panicked", !.ret = "Panic"]

\* the loop without the prev_fp == current_fp test
LoopStep_NoRecursionCheck(s) ==
    IF s.limit > 0
    THEN IF s.current_fp = Null
         THEN [s EXCEPT !.pc = "after", !.iters = @ + 1]
         ELSE LET entry == BacktraceEntry_new(s.current_fp)
                  w == Store(s, entry)
              IN  IF w.pc = "panicked" THEN [w EXCEPT !.derefs = @ \cup {s.current_fp}]
                  ELSE [w EXCEPT !.prev_fp = s.current_fp,
                                 !.current_fp = entry.previous_frame,
                                 !.count = @ + 1,
                                 !.limit = @ - 1,
                                 !.iters = @ + 1,
                                 !.derefs = @ \cup {s.current_fp}]
    ELSE [s EXCEPT !.pc = "after"]

\* one evaluation of `while limit > 0 { ... }`
LoopStep(s) ==
    IF s.limit > 0
    THEN IF s.current_fp = Null
         THEN [s EXCEPT !.pc = "after", !.iters = @ + 1]
         ELSE IF s.prev_fp = s.current_fp
         THEN LET w == Store(s, ErrEntry("RecursiveFramePointer"))
              IN  IF w.pc = "panicked" THEN w
                  ELSE [w EXCEPT !.count = @ + 1, !.pc = "after", !.iters = @ + 1]
         ELSE LET entry == BacktraceEntry_new(s.current_fp)
                  w == Store(s, entry)
              IN  IF w.pc = "panicked" THEN [w EXCEPT !.derefs = @ \cup {s.current_fp}]
                  ELSE [w EXCEPT !.prev_fp = s.current_fp,
                                 !.current_fp = entry.previous_frame,
                                 !.count = @ + 1,
                                 !.limit = @ - 1,
                                 !.iters = @ + 1,
                                 !.derefs = @ \cup {s.current_fp}]
    ELSE [s EXCEPT !.pc = "after"]

\* the limit entry pushed whenever the chain has not ended
Epilogue_ChainNotEnded(s) ==
    IF s.current_fp # Null
    THEN LET w == Store(s, ErrEntry("BacktraceLimitReached"))
         IN  IF w.pc = "panicked" THEN w
             ELSE [w EXCEPT !.pc = "returned", !.ret = "Ok"]
    ELSE [s EXCEPT !.pc = "returned", !.ret = "Ok"]

\* after the loop: the limit entry and the return
Epilogue(s) ==
    IF s.limit = 0
    THEN LET w == Store(s, ErrEntry("BacktraceLimitReached"))
         IN  IF w.pc = "panicked" THEN w
             ELSE [w EXCEPT !.pc = "returned", !.ret = "Ok"]
    ELSE [s EXCEPT !.pc = "returned", !.ret = "Ok"]

Terminal(s) == s.pc \in {"returned", "panicked"}

StepOf(s) == IF s.pc = "loop" THEN LoopStep(s) ELSE Epilogue(s)

RECURSIVE RunFrom(_)
RunFrom(s) == IF Terminal(s) THEN s ELSE RunFrom(StepOf(s))

\* the whole of Backtrace::new(fp, lr, l) on the present stack memory
Backtrace_new(fp, lr, l) == RunFrom(Prologue(fp, lr, l))

-----------------------------------------------------------------------------
(* The module registry.  Pointers to ModuleObject are 1..Len(modules); the   *)
(* two list heads are the distinct pointers AutoHead and ManualHead, which   *)
(* the iterator uses as its end mark (the list object cast to a module       *)
(* pointer).  Addresses stay far below 2^64, so no sum of the lookups wraps. *)

\* most modules in the two lists together
MaxModules == 2
\* memory regions start at 0..MaxAddr
MaxAddr == 2
\* memory regions hold 1..MaxRegionSize bytes
MaxRegionSize == 1
\* most entries of a dynamic symbol table
MaxSymbols == 2
\* st_value ranges over 0..MaxSymValue
MaxSymValue == 1
\* st_size is 0 or MaxSymSize
MaxSymSize == 1

\* &AUTO_LOAD_LIST and &MANUAL_LOAD_LIST as *const ModuleObject
AutoHead == -1
ManualHead == -2

NoInfo == [ok |-> FALSE, addr |-> 0, size |-> 0]

\* nx::query_memory(address): the region holding the address, or an error
query_memory(address) ==
    IF \E r \in regions : r.addr <= address /\ address < r.addr + r.size
    THEN LET r == CHOOSE r \in regions :
                     r.addr <= address /\ address < r.addr + r.size
         IN  [ok |-> TRUE, addr |-> r.addr, size |-> r.size]
    ELSE NoInfo

\* the upper bound excluded
contains_address_HalfOpen(m, address) ==
    LET info == query_memory(modules[m].module_base)
    IN  info.ok /\ info.addr <= address /\ address < info.addr + info.size

\* ModuleObject::contains_address
contains_address(m, address) ==
    LET info == query_memory(modules[m].module_base)
    IN  info.ok /\ info.addr <= address /\ address <= info.addr + info.size

\* ModuleObjectListIterator::next until the first module the test accepts
RECURSIVE ListFind(_, _, _)
ListFind(current, end, address) ==
    IF current = end THEN Null
    ELSE IF contains_address(current, address) THEN current
    ELSE ListFind(modules[current].next, end, address)

\* rtld::find_module_for_address
find_module_for_address(address) ==
    LET object == ListFind(auto_front, AutoHead, address)
    IN  IF object # Null THEN object
        ELSE ListFind(manual_front, ManualHead, address)

\* Option<&str>::None
NoName == [some |-> FALSE, name |-> <<>>]

\* str::split(sep).last(): what follows the last separator.  A string is the
\* sequence of its pieces, a separator being a piece of its own.
LastPiece(str, sep) ==
    LET at == {i \in 1..Len(str) : str[i] = sep}
    IN  IF at = {} THEN str
        ELSE SubSeq(str, (CHOOSE i \in at : \A j \in at : j <= i) + 1, Len(str))

\* the name a module that cannot tell its name is compared under
InvalidName == <<"__invalid_name">>

\* ModuleObject::get_module_name
get_module_name(m) ==
    LET info == query_memory(modules[m].module_base)
        ro_info == query_memory(info.addr + info.size)
    IN  IF ~info.ok THEN NoName
        ELSE IF ~ro_info.ok THEN NoName
        ELSE LET rw_data_offset == rodata[ro_info.addr].rw_data_offset
                 path_length == rodata[ro_info.addr].path_length
                 name == SubSeq(rodata[ro_info.addr].bytes, 1, path_length)
             IN  IF rw_data_offset + info.addr = ro_info.addr + ro_info.size
                 THEN NoName
                 ELSE IF rw_data_offset # 0 THEN NoName
                 ELSE IF path_length <= 0 THEN NoName
                 ELSE [some |-> TRUE,
                       name |-> LastPiece(LastPiece(name, "\\"), "/")]

\* get_module_name().unwrap_or("__invalid_name")
NameOrInvalid(m) ==
    IF get_module_name(m).some THEN get_module_name(m).name ELSE InvalidName

\* Iterator::find over one list: the first module whose name is the name
RECURSIVE NameFind(_, _, _)
NameFind(current, end, name) ==
    IF current = end THEN Null
    ELSE IF NameOrInvalid(current) = name THEN current
    ELSE NameFind(modules[current].next, end, name)

\* rtld::find_module_by_name: the auto-loaded list chained with the manual one
find_module_by_name(name) ==
    LET object == NameFind(auto_front, AutoHead, name)
    IN  IF object # Null THEN object
        ELSE NameFind(manual_front, ManualHead, name)

\* Option<(&str, u64)>::None
NoSymbol == [found |-> FALSE, name |-> <<>>, start |-> 0]

\* the NUL-terminated string at dynstr + offset
RECURSIVE CStrAt(_, _)
CStrAt(dynstr, offset) ==
    IF dynstr[offset + 1] = 0 THEN <<>>
    ELSE <<dynstr[offset + 1]>> \o CStrAt(dynstr, offset + 1)

\* only the undefined section index skipped
ShndxSkipped_ZeroOnly(shndx) == shndx = 0

\* shndx == 0 || (shndx & 0xFF00) == 0xFF00 on a u16
ShndxSkipped(shndx) == shndx = 0 \/ (shndx \div 256) % 256 = 255

\* symbol.st_info & 0xF != 2
NotFunction(st_info) == st_info % 16 # 2

\* the scan with the upper bound excluded
RECURSIVE SymbolScan_HalfOpen(_, _, _)
SymbolScan_HalfOpen(m, i, address) ==
    IF i > Len(modules[m].dynsym) THEN NoSymbol
    ELSE LET symbol == modules[m].dynsym[i]
             function_start == modules[m].module_base + symbol.st_value
             function_end == function_start + symbol.st_size
         IN  IF ShndxSkipped(symbol.st_shndx) THEN SymbolScan_HalfOpen(m, i + 1, address)
             ELSE IF NotFunction(symbol.st_info) THEN SymbolScan_HalfOpen(m, i + 1, address)
             ELSE IF function_start <= address /\ address < function_end
             THEN [found |-> TRUE,
                   name  |-> CStrAt(modules[m].dynstr, symbol.st_name),
                   start |-> function_start]
             ELSE SymbolScan_HalfOpen(m, i + 1, address)

\* the loop of find_symbol_for_address from table index i on
RECURSIVE SymbolScan(_, _, _)
SymbolScan(m, i, address) ==
    IF i > Len(modules[m].dynsym) THEN NoSymbol
    ELSE LET symbol == modules[m].dynsym[i]
             function_start == modules[m].module_base + symbol.st_value
             function_end == function_start + symbol.st_size
         IN  IF ShndxSkipped(symbol.st_shndx) THEN SymbolScan(m, i + 1, address)
             ELSE IF NotFunction(symbol.st_info) THEN SymbolScan(m, i + 1, address)
             ELSE IF function_start <= address /\ address <= function_end
             THEN [found |-> TRUE,
                   name  |-> CStrAt(modules[m].dynstr, symbol.st_name),
                   start |-> function_start]
             ELSE SymbolScan(m, i + 1, address)

\* ModuleObject::find_symbol_for_address
find_symbol_for_address(m, address) == SymbolScan(m, 1, address)

\* the digits of {:x}
HexDigit == <<"0", "1", "2", "3", "4", "5", "6", "7",
              "8", "9", "a", "b", "c", "d", "e", "f">>

\* {:x}: the lower-case hexadecimal digits of n, most significant first
RECURSIVE LowerHex(_)
LowerHex(n) ==
    IF n < 16 THEN <<HexDigit[n + 1]>>
    ELSE LowerHex(n \div 16) \o <<HexDigit[(n % 16) + 1]>>

\* {:016x}: the digits padded with zeros to sixteen
Padded16(n) ==
    LET digits == LowerHex(n)
        fill == IF Len(digits) >= 16 THEN 0 ELSE 16 - Len(digits)
    IN  [i \in 1..fill |-> "0"] \o digits

\* {:#x}: the digits behind 0x; a u64 subtraction that underflowed either
\* panicked or wrapped, depending on the build's overflow checks
AlternateHex(n) ==
    IF n < 0 THEN <<"underflow">> ELSE <<"0", "x">> \o LowerHex(n)

\* the parts of no formatted entry
NoEntry ==
    [address |-> <<>>, module |-> <<>>, module_offset |-> <<>>,
     symbol |-> <<>>, demangled |-> FALSE, symbol_offset |-> <<>>]

\* Backtrace::demangle_symbol: what __cxa_demangle gives if status says it
\* succeeded, else the symbol itself
demangle_symbol(demangle, status) == demangle /\ status

\* the symbol's offset computed from the module's base
get_formatted_addr_FromBase(address, demangle, status) ==
    LET object == find_module_for_address(address)
    IN  IF object # Null
        THEN LET module_offset == address - modules[object].module_base
                 name == IF get_module_name(object).some
                         THEN get_module_name(object).name
                         ELSE <<"unknown">>
                 found == find_symbol_for_address(object, address)
             IN  IF found.found
                 THEN [address |-> Padded16(address),
                       module |-> name,
                       module_offset |-> AlternateHex(module_offset),
                       symbol |-> found.name,
                       demangled |-> demangle_symbol(demangle, status),
                       symbol_offset |-> AlternateHex(module_offset)]
                 ELSE [NoEntry EXCEPT !.address = Padded16(address),
                                      !.module = name,
                                      !.module_offset = AlternateHex(module_offset)]
        ELSE [NoEntry EXCEPT !.address = Padded16(address)]

\* Backtrace::get_formatted_addr_: the parts of the string it formats,
\* "{:016x} ({} + {:#x}) ({} + {:#x})", "{:016x} ({} + {:#x})" or "{:016x}"
get_formatted_addr_(address, demangle, status) ==
    LET object == find_module_for_address(address)
    IN  IF object # Null
        THEN LET module_offset == address - modules[object].module_base
                 name == IF get_module_name(object).some
                         THEN get_module_name(object).name
                         ELSE <<"unknown">>
                 found == find_symbol_for_address(object, address)
             IN  IF found.found
                 THEN LET symbol_offset == address - found.start
                      IN  [address |-> Padded16(address),
                           module |-> name,
                           module_offset |-> AlternateHex(module_offset),
                           symbol |-> found.name,
                           demangled |-> demangle_symbol(demangle, status),
                           symbol_offset |-> AlternateHex(symbol_offset)]
                 ELSE [NoEntry EXCEPT !.address = Padded16(address),
                                      !.module = name,
                                      !.module_offset = AlternateHex(module_offset)]
        ELSE [NoEntry EXCEPT !.address = Padded16(address)]


-----------------------------------------------------------------------------
(* The hook macros.  A declaration is its attributes and the kind of the     *)
(* attribute macro; make_hook_internal picks the strategy and reports the    *)
(* diagnostics, and the expansion is a module of four functions over two     *)
(* statics.  The patch engine and the loader behind the skex_hooks_* FFI are *)
(* outside the crate: the model keeps what they are told and what they hand  *)
(* back.                                                                      *)

\* the engine hands back original entries 0..MaxEntry
MaxEntry == 2
\* most deferred installs the loader holds at a time
MaxPending == 2

\* HookStyle: replace is HookStyle::Symbol, offset is HookStyle::Offset
StyleKeys == {"replace", "offset"}

\* the target expression as should_be_jit_hook matches it: a string literal,
\* any other literal, a path, any other expression
ValueShapes == {"Lit::Str", "Lit", "Path", "Expr"}

\* Option<ModuleArg>: no module argument, a known module, a module by name
ModuleArgs == {"None", "ByKnown", "ByName"}

HookKinds == {"Callback", "Inline", "LegacyInline", "Hook"}

AllAttributes ==
    [module : ModuleArgs, key : StyleKeys, value : ValueShapes,
     force_jit : BOOLEAN]

\* the warning closure reporting an error instead
try_emit_warning_AsError(a) == [warning |-> FALSE, error |-> a.force_jit]

\* the closure try_emit_warning: a warning exactly when force_jit is given
try_emit_warning(a) == [warning |-> a.force_jit, error |-> FALSE]

\* the verdict of should_be_jit_hook with the diagnostics it emitted
Verdict(jit, diagnostics) ==
    [jit |-> jit, warning |-> diagnostics.warning, error |-> diagnostics.error]

\* a declaration without replace taken for a symbol hook
NotReplace_Symbol(a) == Verdict(FALSE, try_emit_warning(a))

\* the first check: the keyword is not replace
NotReplace(a) == Verdict(TRUE, try_emit_warning(a))

\* a string literal that honours force_jit
StrLiteral_Forced(a) == Verdict(a.force_jit, [warning |-> FALSE, error |-> FALSE])

\* syn::Lit::Str: a symbol hook, and force_jit is an error
StrLiteral(a) == Verdict(FALSE, [warning |-> FALSE, error |-> a.force_jit])

\* any other literal taken for a symbol hook
OtherLiteral_Symbol(a) == Verdict(FALSE, [warning |-> FALSE, error |-> FALSE])

\* any other literal needs JIT
OtherLiteral(a) == Verdict(TRUE, try_emit_warning(a))

\* a path that ignores force_jit
PathExpr_Unforced(a) == Verdict(FALSE, [warning |-> FALSE, error |-> FALSE])

\* syn::Expr::Path: JIT exactly when forced, no diagnostic
PathExpr(a) == Verdict(a.force_jit, [warning |-> FALSE, error |-> FALSE])

\* any other expression uses JIT
OtherExpr(a) == Verdict(TRUE, try_emit_warning(a))

\* should_be_jit_hook
should_be_jit_hook(a) ==
    IF a.key # "replace" THEN NotReplace(a)
    ELSE CASE a.value = "Lit::Str" -> StrLiteral(a)
           [] a.value = "Lit"      -> OtherLiteral(a)
           [] a.value = "Path"     -> PathExpr(a)
           [] OTHER                -> OtherExpr(a)

\* error_module_on_replace: a module argument under replace is an error
error_module_on_replace(a) == a.key = "replace" /\ a.module # "None"

NotExpanded ==
    [done |-> FALSE, is_symbol_hook |-> FALSE, warning |-> FALSE,
     error |-> FALSE, module_error |-> FALSE]

\* make_hook_internal: the strategy and every diagnostic of the expansion
make_hook_internal(a) ==
    [done |-> TRUE,
     is_symbol_hook |-> ~should_be_jit_hook(a).jit,
     warning |-> should_be_jit_hook(a).warning,
     error |-> should_be_jit_hook(a).error,
     module_error |-> error_module_on_replace(a)]

\* the expansion compiles: no diagnostic is an error, and the offset
\* expression, which the generated code casts to usize, is not a string
Compiles(a, e) ==
    /\ e.done /\ ~e.error /\ ~e.module_error
    /\ ~(a.key = "offset" /\ a.value = "Lit::Str")

\* the identifier of the hooked function, and the module a declaration names
base_ident == <<"my_hook">>
ModuleName == <<"a">>

NoPanic == [raised |-> FALSE, message |-> "", naming |-> <<>>]

OriginalNotSet ==
    [raised |-> TRUE,
     message |-> "Error calling function hook {}, original function not set.",
     naming |-> base_ident]

NotLoaded ==
    [raised |-> TRUE,
     message |-> "Dynamic module \"{}\" is not currently loaded, the hook state cannot be changed!",
     naming |-> ModuleName]

\* an address the generated code computes: the expression itself, an offset
\* into the text of a known or named static module, or module_base + offset
Location(via, base) == [via |-> via, base |-> base]

\* one call through the FFI: the function, the address or name it is given,
\* the replacement identity, whether &mut trampoline is passed, the flag,
\* and the original entry the engine returns or stores through the pointer
Call(fn, at, user, slot, enable, gives) ==
    [fn |-> fn, at |-> at, user |-> user, slot |-> slot, enable |-> enable,
     kind |-> kind, gives |-> gives]

\* the FFI functions that install at once
EngineInstalls == {"skex_hooks_install", "skex_hooks_install_on_symbol"}

\* what one generated function did
Outcome(t, e, p, calls, panic, callee) ==
    [trampoline |-> t, is_enabled |-> e, pending |-> p, calls |-> calls,
     panic |-> panic, callee |-> callee]

\* the module argument of an offset declaration, main by default
ModuleOf(a) == IF a.module = "None" THEN "ByKnown" ELSE a.module

\* the deferred path taken only while no module of the name is loaded
DefersToLoad_UnlessLoaded(a) ==
    /\ a.key = "offset" /\ ModuleOf(a) = "ByName" /\ ~static_module
    /\ find_module_by_name(ModuleName) = Null

\* install() takes the deferred path of evaluate_hooking_expression
DefersToLoad(a) ==
    a.key = "offset" /\ ModuleOf(a) = "ByName" /\ ~static_module

\* evaluate_hooking_expression, when it yields an address
JitLocation(a) ==
    IF a.key = "replace" THEN Location("expr", 0)
    ELSE IF ModuleOf(a) = "ByKnown" THEN Location("known.text[offset]", 0)
    ELSE Location("static.text[offset]", 0)

\* install() that drops what skex_hooks_install returns
jit_install_Discarding(r) ==
    IF DefersToLoad(attrs)
    THEN Outcome(trampoline, is_enabled, pending + 1,
                 <<Call("skex_hooks_install_on_dynamic_load",
                        Location("offset", 0), "user_fn", TRUE, "-", {})>>,
                 NoPanic, {})
    ELSE Outcome(trampoline, is_enabled, pending,
                 <<Call("skex_hooks_install", JitLocation(attrs), "user_fn",
                        FALSE, "-", {r})>>,
                 NoPanic, {})

\* install() of a direct-patch hook; r is what skex_hooks_install returns
jit_install(r) ==
    IF DefersToLoad(attrs)
    THEN Outcome(trampoline, is_enabled, pending + 1,
                 <<Call("skex_hooks_install_on_dynamic_load",
                        Location("offset", 0), "user_fn", TRUE, "-", {})>>,
                 NoPanic, {})
    ELSE Outcome(r, is_enabled, pending,
                 <<Call("skex_hooks_install", JitLocation(attrs), "user_fn",
                        FALSE, "-", {r})>>,
                 NoPanic, {})

\* uninstall() that also resets the slot
jit_uninstall_Clearing ==
    Outcome(0, is_enabled, pending,
            <<Call("skex_hooks_uninstall", Location("-", 0), "user_fn",
                   FALSE, "-", {})>>,
            NoPanic, {})

\* uninstall() of a direct-patch hook
jit_uninstall ==
    Outcome(trampoline, is_enabled, pending,
            <<Call("skex_hooks_uninstall", Location("-", 0), "user_fn",
                   FALSE, "-", {})>>,
            NoPanic, {})

\* evaluate_hooking_expression_for_set_enable: the address, or the panic
SetEnableLocation(a) ==
    IF a.key = "replace" THEN Location("expr", 0)
    ELSE IF ModuleOf(a) = "ByKnown" THEN Location("known.text[offset]", 0)
    ELSE IF static_module THEN Location("static.text[offset]", 0)
    ELSE IF find_module_by_name(ModuleName) # Null
    THEN Location("module_base + offset",
                  modules[find_module_by_name(ModuleName)].module_base)
    ELSE Location("panic", 0)

\* enable() and disable() doing nothing while the module is not loaded
jit_set_enable_Silent(enable) ==
    IF SetEnableLocation(attrs).via = "panic"
    THEN Outcome(trampoline, is_enabled, pending, <<>>, NoPanic, {})
    ELSE Outcome(trampoline, is_enabled, pending,
                 <<Call("skex_hooks_set_enable", SetEnableLocation(attrs),
                        "user_fn", FALSE,
                        IF enable THEN "true" ELSE "false", {})>>,
                 NoPanic, {})

\* enable() and disable() of a direct-patch hook
jit_set_enable(enable) ==
    IF SetEnableLocation(attrs).via = "panic"
    THEN Outcome(trampoline, is_enabled, pending, <<>>, NotLoaded, {})
    ELSE Outcome(trampoline, is_enabled, pending,
                 <<Call("skex_hooks_set_enable", SetEnableLocation(attrs),
                        "user_fn", FALSE,
                        IF enable THEN "true" ELSE "false", {})>>,
                 NoPanic, {})

\* install() that also arms the stub
symbol_install_Enabling(w) ==
    IF attrs.value = "Lit::Str"
    THEN Outcome(trampoline, TRUE, pending + 1,
                 <<Call("skex_hooks_install_on_symbol_future",
                        Location("symbol name", 0), "manual_ident", TRUE, "-",
                        {})>>,
                 NoPanic, {})
    ELSE Outcome(w, TRUE, pending,
                 <<Call("skex_hooks_install_on_symbol", Location("expr", 0),
                        "manual_ident", TRUE, "-", {w})>>,
                 NoPanic, {})

\* install() of a precompiled-stub hook; w is what skex_hooks_install_on_symbol
\* stores through the slot pointer it is given
symbol_install(w) ==
    IF attrs.value = "Lit::Str"
    THEN Outcome(trampoline, is_enabled, pending + 1,
                 <<Call("skex_hooks_install_on_symbol_future",
                        Location("symbol name", 0), "manual_ident", TRUE, "-",
                        {})>>,
                 NoPanic, {})
    ELSE Outcome(w, is_enabled, pending,
                 <<Call("skex_hooks_install_on_symbol", Location("expr", 0),
                        "manual_ident", TRUE, "-", {w})>>,
                 NoPanic, {})

\* uninstall() of a precompiled-stub hook
symbol_uninstall ==
    Outcome(trampoline, is_enabled, pending,
            <<Call("skex_hooks_uninstall_from_symbol", Location("-", 0),
                   "manual_ident", FALSE, "-", {})>>,
            NoPanic, {})

\* enable() and disable() flipping the flag
symbol_set_enable_Toggling(enable) ==
    Outcome(trampoline, ~is_enabled, pending, <<>>, NoPanic, {})

\* enable() and disable() of a precompiled-stub hook
symbol_set_enable(enable) ==
    Outcome(trampoline, enable, pending, <<>>, NoPanic, {})

\* original! that hands the slot over unchecked
original_Unchecked ==
    Outcome(trampoline, is_enabled, pending, <<>>, NoPanic, {trampoline})

\* original!: the panic, or the slot as the function to call
original ==
    IF trampoline = 0
    THEN Outcome(trampoline, is_enabled, pending, <<>>, OriginalNotSet, {})
    ELSE Outcome(trampoline, is_enabled, pending, <<>>, NoPanic, {trampoline})

\* the three forms of call-original
OriginalForms == {"original!", "call_original!", "original"}

\* no operation yet
NoOp ==
    [op |-> "none", form |-> "-", before |-> 0, was_enabled |-> TRUE,
     calls |-> <<>>, panic |-> NoPanic, callee |-> {}]

\* a specification of another subsystem declares no hook
HooksIdle ==
    /\ attrs = [module |-> "None", key |-> "replace", value |-> "Path",
                force_jit |-> FALSE]
    /\ kind = "Hook"
    /\ static_module = FALSE
    /\ expansion = NotExpanded
    /\ trampoline = 0
    /\ is_enabled = TRUE
    /\ pending = 0
    /\ installed = FALSE
    /\ written = 0
    /\ flag_set = TRUE
    /\ last = NoOp

-----------------------------------------------------------------------------
(* The run-once shim: make_shim moves the user's statements into a closure  *)
(* handed to a static ONCE, std::sync::Once::call_once for a function       *)
(* without a return type and once_cell::sync::OnceCell::get_or_init for one *)
(* with a return type. Both synchronise their callers: the first caller     *)
(* runs the closure, a caller arriving meanwhile blocks until it is done,   *)
(* a caller arriving afterwards returns at once.                            *)

\* threads that may call the shim at the same time
MaxThreads == 3
\* the body computes a value in 1..MaxValue; 0 stands for no value
MaxValue == 2

ShimThreads == 1..MaxThreads

\* a flag tested and set without synchronisation in place of the ONCE
call_once_Unsynchronised(state) ==
    IF state = "complete" THEN "skip" ELSE "run"

\* what ONCE.call_once does with its closure in each state of the Once
call_once(state) ==
    CASE state = "incomplete" -> "run"
      [] state = "running"    -> "block"
      [] state = "complete"   -> "skip"

\* a cell tested and filled without synchronisation in place of the ONCE
get_or_init_Unsynchronised(state) ==
    IF state = "complete" THEN "skip" ELSE "run"

\* what ONCE.get_or_init does with its closure in each state of the cell
get_or_init(state) ==
    CASE state = "incomplete" -> "run"
      [] state = "running"    -> "block"
      [] state = "complete"   -> "skip"

\* the statement make_shim generates for the function's return type
ShimStatement(returns_value, state) ==
    IF returns_value THEN get_or_init(state) ELSE call_once(state)

\* no thread is inside the shim and the ONCE is new
NewShim(returns_value) ==
    [returns_value |-> returns_value,
     once    |-> "incomplete",
     cell    |-> 0,
     runs    |-> 0,
     aborted |-> FALSE,
     pc      |-> [t \in ShimThreads |-> "idle"],
     late    |-> [t \in ShimThreads |-> FALSE],
     ret     |-> [t \in ShimThreads |-> 0]]

ShimIdle == shim = NewShim(FALSE)

-----------------------------------------------------------------------------
(* The assembly stub of a precompiled-stub hook: it loads the is_enabled    *)
(* static, tests bit 0, and either reaches the user function or loads the   *)
(* trampoline static and branches to it.                                    *)

\* interceptions that may be inside the stub at the same time
MaxInterceptions == 1

Interceptions == 1..MaxInterceptions

\* an interception that has not entered the stub: where it is, how often it
\* has loaded the flag, the flag it loaded, whether it began while the hook
\* was disabled with no enable() since, whether it reached the user
\* function, and where its br x16 went
Outside ==
    [pc |-> "outside", loads |-> 0, w16 |-> FALSE, quiet |-> FALSE,
     ran |-> FALSE, target |-> {}]

\* tbnz in place of tbz
tbz_Inverted(w16) == IF w16 THEN "jump_to_trampoline" ELSE "user"

\* tbz w16, #0x0, jump_to_trampoline: the label if bit 0 is clear, else the
\* code that reaches the user function
tbz(w16) == IF w16 THEN "user" ELSE "jump_to_trampoline"

\* where the stub is once the user function returns: write_hook_assembly
\* branches to it (b), so it returns to the caller of the hooked function;
\* the other stubs call it (bl) and fall into the jump_to_trampoline label
AfterUser(k) == IF k = "Hook" THEN "outside" ELSE "jump_to_trampoline"

StubIdle == stub = [t \in Interceptions |-> Outside]

-----------------------------------------------------------------------------
(* The unwinder as a state machine *)

Limits == {0, 5} \cup (MinLimit..MaxLimit)

NoLookup ==
    [op |-> "none", module |-> Null, address |-> 0, name |-> <<>>,
     object |-> Null, symbol |-> NoSymbol, entry |-> NoEntry]

RtldIdle ==
    /\ regions = {}
    /\ rodata = <<>>
    /\ modules = <<>>
    /\ auto_front = AutoHead
    /\ manual_front = ManualHead
    /\ lookup = NoLookup

InitBacktrace ==
    /\ ShimIdle
    /\ StubIdle
    /\ chainLen \in 1..MaxFrames
    /\ chainTail \in 0..chainLen
    /\ arg_fp \in {Null, 1}
    /\ arg_lr \in 0..MaxLr
    /\ arg_limit \in Limits
    /\ bt = Idle
    /\ RtldIdle
    /\ HooksIdle

Enter ==
    /\ bt.pc = "start"
    /\ bt' = Prologue(arg_fp, arg_lr, arg_limit)
    /\ UNCHANGED <<chainLen, chainTail, arg_fp, arg_lr, arg_limit>>
    /\ UNCHANGED rtldVars
    /\ UNCHANGED hookVars
    /\ UNCHANGED shimVars
    /\ UNCHANGED stubVars

Iterate ==
    /\ bt.pc = "loop"
    /\ bt' = LoopStep(bt)
    /\ UNCHANGED <<chainLen, chainTail, arg_fp, arg_lr, arg_limit>>
    /\ UNCHANGED rtldVars
    /\ UNCHANGED hookVars
    /\ UNCHANGED shimVars
    /\ UNCHANGED stubVars

Finish ==
    /\ bt.pc = "after"
    /\ bt' = Epilogue(bt)
    /\ UNCHANGED <<chainLen, chainTail, arg_fp, arg_lr, arg_limit>>
    /\ UNCHANGED rtldVars
    /\ UNCHANGED hookVars
    /\ UNCHANGED shimVars
    /\ UNCHANGED stubVars

NextBacktrace == Enter \/ Iterate \/ Finish

SpecBacktrace == InitBacktrace /\ [][NextBacktrace]_vars

-----------------------------------------------------------------------------
(* The registry as a state machine: the loader state is drawn at the start;  *)
(* a step is one whole lookup, or the caller dropping the last result.       *)

BacktraceIdle ==
    /\ chainLen = 1
    /\ chainTail = Null
    /\ arg_fp = Null
    /\ arg_lr = 0
    /\ arg_limit = 0
    /\ bt = Idle

NoRegion == [addr |-> 0, size |-> 0]

AllRegions == {[addr |-> a, size |-> z] : a \in 0..MaxAddr, z \in 1..MaxRegionSize}

\* where a module lies: its base and the region that holds it, if any
Placements ==
    {[base |-> b, reg |-> r] :
        b \in 0..(MaxAddr + MaxRegionSize), r \in AllRegions \cup {NoRegion}}

PlacementOk(p) ==
    p.reg = NoRegion \/ (p.reg.addr <= p.base /\ p.base < p.reg.addr + p.reg.size)

Disjoint(r1, r2) == r1.addr + r1.size <= r2.addr \/ r2.addr + r2.size <= r1.addr

\* the placements describe one memory map
MapOk(place) ==
    /\ \A m \in DOMAIN place : PlacementOk(place[m])
    /\ \A m1, m2 \in DOMAIN place :
          \/ place[m1].reg = NoRegion
          \/ /\ place[m2].reg = NoRegion
             /\ ~(place[m1].reg.addr <= place[m2].base
                    /\ place[m2].base < place[m1].reg.addr + place[m1].reg.size)
          \/ /\ place[m2].reg # NoRegion
             /\ (place[m1].reg = place[m2].reg \/ Disjoint(place[m1].reg, place[m2].reg))

\* modules 1..k are the auto-loaded list front to back, k+1..n the manual one
NextOf(m, k, n) ==
    IF m = k THEN AutoHead ELSE IF m = n THEN ManualHead ELSE m + 1

\* the string table: name i is the single byte 96 + i, at offset 2i - 1
RECURSIVE DynstrOf(_)
DynstrOf(n) == IF n = 0 THEN <<0>> ELSE DynstrOf(n - 1) \o <<96 + n, 0>>

\* (st_shndx, st_info): function, global function, undefined, SHN_LORESERVE,
\* SHN_ABS, object
SymbolKinds ==
    {<<1, 2>>, <<1, 18>>, <<0, 2>>, <<65280, 2>>, <<65521, 2>>, <<1, 1>>}

SymbolShapes ==
    {[kind |-> c, st_value |-> v, st_size |-> z] :
        c \in SymbolKinds, v \in 0..MaxSymValue, z \in {0, MaxSymSize}}

DynsymOf(shapes) ==
    [i \in DOMAIN shapes |->
        [st_name  |-> 2 * i - 1,
         st_info  |-> shapes[i].kind[2],
         st_shndx |-> shapes[i].kind[1],
         st_value |-> shapes[i].st_value,
         st_size  |-> shapes[i].st_size]]

\* loader lists of up to MaxModules modules without symbols
InitLists ==
    \E n \in 0..MaxModules : \E k \in 0..n :
        \E place \in [1..n -> Placements] :
            /\ MapOk(place)
            /\ regions = {place[m].reg : m \in 1..n} \ {NoRegion}
            /\ rodata = <<>>
            /\ modules = [m \in 1..n |->
                            [next |-> NextOf(m, k, n),
                             module_base |-> place[m].base,
                             dynsym |-> <<>>,
                             dynstr |-> <<0>>]]
            /\ auto_front = IF k >= 1 THEN 1 ELSE AutoHead
            /\ manual_front = IF n > k THEN k + 1 ELSE ManualHead

\* one auto-loaded module with a symbol table of up to MaxSymbols entries
InitSymbols ==
    \E n \in 1..MaxSymbols : \E shapes \in [1..n -> SymbolShapes] :
        /\ regions = {[addr |-> 1, size |-> MaxRegionSize]}
        /\ rodata = <<>>
        /\ modules = <<[next |-> AutoHead,
                        module_base |-> 1,
                        dynsym |-> DynsymOf(shapes),
                        dynstr |-> DynstrOf(n)]>>
        /\ auto_front = 1
        /\ manual_front = ManualHead

\* module m of a named scenario: its text region and what follows it
TextOf(m) == [addr |-> 4 * (m - 1), size |-> 2]
RodataOf(m) == [addr |-> 4 * (m - 1) + 2, size |-> 2]

\* the paths a module header may hold
Paths ==
    {<<"a">>, <<"d", "/", "a">>, <<"d", "\\", "c", "/", "b">>, InvalidName}

\* what get_module_name finds for a module: the text region unmapped, nothing
\* mapped behind it, a header it rejects, or a path
NameShapes ==
    {[text |-> FALSE, ro |-> FALSE, rw_data_offset |-> 0, path_length |-> 0,
      bytes |-> <<>>],
     [text |-> TRUE, ro |-> FALSE, rw_data_offset |-> 0, path_length |-> 0,
      bytes |-> <<>>]}
    \cup {[text |-> TRUE, ro |-> TRUE, rw_data_offset |-> w, path_length |-> 1,
           bytes |-> <<"a">>] : w \in {1, 4}}
    \cup {[text |-> TRUE, ro |-> TRUE, rw_data_offset |-> 0, path_length |-> l,
           bytes |-> <<"a">>] : l \in {-1, 0}}
    \cup {[text |-> TRUE, ro |-> TRUE, rw_data_offset |-> 0, path_length |-> 1,
           bytes |-> <<"b", "/", "a">>]}
    \cup {[text |-> TRUE, ro |-> TRUE, rw_data_offset |-> 0,
           path_length |-> Len(path), bytes |-> path] : path \in Paths}

\* loader lists of up to MaxModules modules with their name headers
InitNames ==
    \E n \in 0..MaxModules : \E k \in 0..n :
        \E shape \in [1..n -> NameShapes] :
            /\ regions = {TextOf(m) : m \in {i \in 1..n : shape[i].text}}
                            \cup {RodataOf(m) : m \in {i \in 1..n : shape[i].ro}}
            /\ rodata = [a \in {RodataOf(m).addr : m \in {i \in 1..n : shape[i].ro}}
                            |-> LET m == CHOOSE i \in 1..n : RodataOf(i).addr = a
                                IN  [rw_data_offset |-> shape[m].rw_data_offset,
                                     path_length |-> shape[m].path_length,
                                     bytes |-> shape[m].bytes]]
            /\ modules = [m \in 1..n |->
                            [next |-> NextOf(m, k, n),
                             module_base |-> TextOf(m).addr,
                             dynsym |-> <<>>,
                             dynstr |-> <<0>>]]
            /\ auto_front = IF k >= 1 THEN 1 ELSE AutoHead
            /\ manual_front = IF n > k THEN k + 1 ELSE ManualHead

InitRtld ==
    /\ ShimIdle
    /\ StubIdle
    /\ BacktraceIdle
    /\ HooksIdle
    /\ lookup = NoLookup
    /\ (InitLists \/ InitSymbols \/ InitNames)

Addresses == 0..(MaxAddr + MaxRegionSize + 1)

FindModuleForAddress ==
    /\ lookup = NoLookup
    /\ \E address \in Addresses :
          lookup' = [op |-> "find_module_for_address", module |-> Null,
                     address |-> address, name |-> <<>>,
                     object |-> find_module_for_address(address),
                     symbol |-> NoSymbol, entry |-> NoEntry]
    /\ UNCHANGED loaderVars
    /\ UNCHANGED btVars
    /\ UNCHANGED hookVars
    /\ UNCHANGED shimVars
    /\ UNCHANGED stubVars

FindSymbolForAddress ==
    /\ lookup = NoLookup
    /\ \E m \in DOMAIN modules : \E address \in Addresses :
          lookup' = [op |-> "find_symbol_for_address", module |-> m,
                     address |-> address, name |-> <<>>,
                     object |-> Null,
                     symbol |-> find_symbol_for_address(m, address),
                     entry |-> NoEntry]
    /\ UNCHANGED loaderVars
    /\ UNCHANGED btVars
    /\ UNCHANGED hookVars
    /\ UNCHANGED shimVars
    /\ UNCHANGED stubVars

\* the names a caller asks for
Names == {<<"a">>, <<"b">>, <<"c">>, InvalidName}

\* the header get_module_name reads for the module is part of the state
HeaderKnown(m) ==
    LET info == query_memory(modules[m].module_base)
        ro_info == query_memory(info.addr + info.size)
    IN  (info.ok /\ ro_info.ok) => ro_info.addr \in DOMAIN rodata

FindModuleByName ==
    /\ lookup = NoLookup
    /\ \A m \in DOMAIN modules : HeaderKnown(m)
    /\ \E name \in Names :
          lookup' = [op |-> "find_module_by_name", module |-> Null,
                     address |-> 0, name |-> name,
                     object |-> find_module_by_name(name),
                     symbol |-> NoSymbol, entry |-> NoEntry]
    /\ UNCHANGED loaderVars
    /\ UNCHANGED btVars
    /\ UNCHANGED hookVars
    /\ UNCHANGED shimVars
    /\ UNCHANGED stubVars

\* the lookups are read-only: after one, the registry is as before it
Forget ==
    /\ lookup # NoLookup
    /\ lookup' = NoLookup
    /\ UNCHANGED loaderVars
    /\ UNCHANGED btVars
    /\ UNCHANGED hookVars
    /\ UNCHANGED shimVars
    /\ UNCHANGED stubVars

NextRtld ==
    FindModuleForAddress \/ FindSymbolForAddress \/ FindModuleByName \/ Forget

SpecRtld == InitRtld /\ [][NextRtld]_vars

-----------------------------------------------------------------------------
(* Formatting as a state machine: the registry is as the loader left it and *)
(* a step formats one address, or drops the last result.                    *)

\* the loader maps a module's text at module_base, so the region the kernel
\* reports for module_base begins there
LoadedAtRegionStart ==
    \A m \in DOMAIN modules :
        LET info == query_memory(modules[m].module_base)
        IN  info.ok => info.addr = modules[m].module_base

\* one auto-loaded module with a name header and a symbol table of one or
\* two entries
InitFormatted ==
    \E n \in {1, 2} : \E shapes \in [1..n -> SymbolShapes] :
        /\ regions = {TextOf(1), RodataOf(1)}
        /\ rodata = [a \in {RodataOf(1).addr} |->
                        [rw_data_offset |-> 0, path_length |-> 3,
                         bytes |-> <<"d", "/", "a">>]]
        /\ modules = <<[next |-> AutoHead,
                        module_base |-> TextOf(1).addr,
                        dynsym |-> DynsymOf(shapes),
                        dynstr |-> DynstrOf(n)]>>
        /\ auto_front = 1
        /\ manual_front = ManualHead

InitFormat ==
    /\ ShimIdle
    /\ StubIdle
    /\ BacktraceIdle
    /\ HooksIdle
    /\ lookup = NoLookup
    /\ (InitLists \/ InitNames \/ InitFormatted)
    /\ LoadedAtRegionStart

\* f.alternate() and the status __cxa_demangle reports if it is asked
DemangleCases == {<<FALSE, FALSE>>, <<TRUE, FALSE>>, <<TRUE, TRUE>>}

FormatAddress ==
    /\ lookup = NoLookup
    /\ \A m \in DOMAIN modules : HeaderKnown(m)
    /\ \E address \in Addresses : \E case \in DemangleCases :
          LET object == find_module_for_address(address)
          IN  lookup' = [op |-> "get_formatted_addr_", module |-> Null,
                         address |-> address, name |-> <<>>,
                         object |-> object,
                         symbol |-> IF object = Null THEN NoSymbol
                                    ELSE find_symbol_for_address(object, address),
                         entry |-> get_formatted_addr_(address, case[1], case[2])]
    /\ UNCHANGED loaderVars
    /\ UNCHANGED btVars
    /\ UNCHANGED hookVars
    /\ UNCHANGED shimVars
    /\ UNCHANGED stubVars

NextFormat == FormatAddress \/ Forget

SpecFormat == InitFormat /\ [][NextFormat]_vars

-----------------------------------------------------------------------------
(* The hooks as a state machine: a declaration is drawn at the start and     *)
(* expanded once; if the expansion compiles, the generated functions, the    *)
(* call-original forms and the loader act in any order.                      *)

InitHooks ==
    /\ ShimIdle
    /\ StubIdle
    /\ BacktraceIdle
    /\ RtldIdle
    /\ attrs \in AllAttributes
    /\ kind \in HookKinds
    /\ static_module \in (IF attrs.module = "ByName" THEN BOOLEAN ELSE {FALSE})
    /\ expansion = NotExpanded
    /\ trampoline = 0
    /\ is_enabled = TRUE
    /\ pending = 0
    /\ installed = FALSE
    /\ written = 0
    /\ flag_set = TRUE
    /\ last = NoOp

\* the attribute macro runs
MakeHook ==
    /\ ~expansion.done
    /\ expansion' = make_hook_internal(attrs)
    /\ UNCHANGED <<attrs, kind, static_module, trampoline, is_enabled,
                   pending, installed, written, flag_set, last>>
    /\ UNCHANGED rtldVars
    /\ UNCHANGED btVars
    /\ UNCHANGED shimVars
    /\ UNCHANGED stubVars

\* one generated function runs to its end
Apply(op, form, out) ==
    /\ trampoline' = out.trampoline
    /\ is_enabled' = out.is_enabled
    /\ pending' = out.pending
    /\ installed' = (installed \/ \E i \in DOMAIN out.calls :
                                      out.calls[i].fn \in EngineInstalls)
    /\ written' = IF \E i \in DOMAIN out.calls : out.calls[i].gives # {}
                  THEN CHOOSE v \in 0..MaxEntry :
                           \E i \in DOMAIN out.calls : v \in out.calls[i].gives
                  ELSE written
    /\ flag_set' = IF op \in {"enable", "disable"} /\ expansion.is_symbol_hook
                   THEN op = "enable"
                   ELSE flag_set
    /\ last' = [op |-> op, form |-> form, before |-> trampoline,
                was_enabled |-> is_enabled, calls |-> out.calls,
                panic |-> out.panic, callee |-> out.callee]
    /\ stub' = [t \in Interceptions |->
                    [stub[t] EXCEPT !.quiet = @ /\ op # "enable"]]
    /\ UNCHANGED <<attrs, kind, static_module, expansion>>
    /\ UNCHANGED rtldVars
    /\ UNCHANGED btVars
    /\ UNCHANGED shimVars

Install ==
    /\ Compiles(attrs, expansion)
    /\ \E r \in 0..MaxEntry :
          LET out == IF expansion.is_symbol_hook THEN symbol_install(r)
                     ELSE jit_install(r)
          IN  out.pending <= MaxPending /\ Apply("install", "-", out)

Uninstall ==
    /\ Compiles(attrs, expansion)
    /\ Apply("uninstall", "-",
             IF expansion.is_symbol_hook THEN symbol_uninstall ELSE jit_uninstall)

Enable ==
    /\ Compiles(attrs, expansion)
    /\ Apply("enable", "-",
             IF expansion.is_symbol_hook THEN symbol_set_enable(TRUE)
             ELSE jit_set_enable(TRUE))

Disable ==
    /\ Compiles(attrs, expansion)
    /\ Apply("disable", "-",
             IF expansion.is_symbol_hook THEN symbol_set_enable(FALSE)
             ELSE jit_set_enable(FALSE))

\* push_original_utils is applied to HookKind::Hook only
CallOriginal ==
    /\ Compiles(attrs, expansion)
    /\ kind = "Hook"
    /\ \E form \in OriginalForms : Apply("call_original", form, original)

\* the hook waits for a module: the one it names, or the one with its symbol
Awaits ==
    \/ ~expansion.is_symbol_hook /\ DefersToLoad(attrs)
    \/ expansion.is_symbol_hook /\ attrs.value = "Lit::Str"

\* the awaited module is loaded into the manual list; the loader completes
\* every deferred install it holds, storing the original entry in the slot
ModuleLoaded ==
    /\ Compiles(attrs, expansion)
    /\ Awaits
    /\ modules = <<>>
    /\ regions' = {TextOf(1), RodataOf(1)}
    /\ rodata' = [a \in {RodataOf(1).addr} |->
                    [rw_data_offset |-> 0, path_length |-> 3,
                     bytes |-> <<"d", "/">> \o ModuleName]]
    /\ modules' = <<[next |-> ManualHead, module_base |-> TextOf(1).addr,
                     dynsym |-> <<>>, dynstr |-> <<0>>]>>
    /\ manual_front' = 1
    /\ IF pending > 0
       THEN \E entry \in 1..MaxEntry :
                /\ trampoline' = entry
                /\ pending' = 0
                /\ installed' = TRUE
                /\ written' = entry
                /\ last' = [NoOp EXCEPT !.op = "completion",
                                        !.before = trampoline,
                                        !.was_enabled = is_enabled]
       ELSE /\ UNCHANGED <<trampoline, pending, installed, written>>
            /\ last' = [NoOp EXCEPT !.op = "module_loaded",
                                    !.before = trampoline,
                                    !.was_enabled = is_enabled]
    /\ UNCHANGED <<auto_front, lookup>>
    /\ UNCHANGED <<attrs, kind, static_module, expansion, is_enabled,
                   flag_set>>
    /\ UNCHANGED btVars
    /\ UNCHANGED shimVars
    /\ UNCHANGED stubVars

\* the module is unloaded again
ModuleUnloaded ==
    /\ modules # <<>>
    /\ regions' = {}
    /\ rodata' = <<>>
    /\ modules' = <<>>
    /\ manual_front' = ManualHead
    /\ last' = [NoOp EXCEPT !.op = "module_unloaded", !.before = trampoline,
                            !.was_enabled = is_enabled]
    /\ UNCHANGED <<auto_front, lookup>>
    /\ UNCHANGED <<attrs, kind, static_module, expansion, trampoline,
                   is_enabled, pending, installed, written, flag_set>>
    /\ UNCHANGED btVars
    /\ UNCHANGED shimVars
    /\ UNCHANGED stubVars

NextHooks ==
    \/ MakeHook
    \/ Install \/ Uninstall \/ Enable \/ Disable
    \/ CallOriginal
    \/ ModuleLoaded \/ ModuleUnloaded

SpecHooks == InitHooks /\ [][NextHooks]_vars

-----------------------------------------------------------------------------
(* The run-once shim as a state machine: threads call the shim in any       *)
(* order and any number of times; a step is a thread reaching the ONCE,     *)
(* the closure returning or panicking, or a blocked thread being released.  *)

InitShim ==
    /\ BacktraceIdle
    /\ RtldIdle
    /\ HooksIdle
    /\ StubIdle
    /\ \E returns_value \in BOOLEAN : shim = NewShim(returns_value)

ShimFrame ==
    /\ UNCHANGED btVars
    /\ UNCHANGED rtldVars
    /\ UNCHANGED hookVars
    /\ UNCHANGED stubVars

\* what an invocation returns once the ONCE is complete
ShimResult == IF shim.returns_value THEN shim.cell ELSE 0

\* a thread calls the shim
ShimCall(t) ==
    /\ ~shim.aborted
    /\ shim.pc[t] = "idle"
    /\ shim' = [shim EXCEPT !.pc[t] = "called",
                            !.late[t] = (shim.once = "complete"),
                            !.ret[t] = 0]
    /\ ShimFrame

\* the thread reaches the ONCE statement
ShimEnter(t) ==
    /\ ~shim.aborted
    /\ shim.pc[t] = "called"
    /\ LET does == ShimStatement(shim.returns_value, shim.once)
       IN  shim' = CASE does = "run" ->
                          [shim EXCEPT !.once = "running",
                                       !.runs = @ + 1,
                                       !.pc[t] = "body"]
                     [] does = "block" ->
                          [shim EXCEPT !.pc[t] = "blocked"]
                     [] does = "skip" ->
                          [shim EXCEPT !.pc[t] = "idle",
                                       !.ret[t] = ShimResult]
    /\ ShimFrame

\* the user's statements run to their end and give v
ShimBodyReturns(t) ==
    /\ ~shim.aborted
    /\ shim.pc[t] = "body"
    /\ \E v \in 1..MaxValue :
          LET given == IF shim.returns_value THEN v ELSE 0
          IN  shim' = [shim EXCEPT !.once = "complete",
                                   !.cell = given,
                                   !.pc[t] = "idle",
                                   !.ret[t] = given]
    /\ ShimFrame

\* the user's statements panic: the unwinding reaches the extern "C"
\* boundary make_hook_internal puts on the function and the process aborts
ShimBodyPanics(t) ==
    /\ ~shim.aborted
    /\ shim.pc[t] = "body"
    /\ shim' = [shim EXCEPT !.aborted = TRUE]
    /\ ShimFrame

\* a thread blocked on the ONCE is released when the closure is done
ShimRelease(t) ==
    /\ ~shim.aborted
    /\ shim.pc[t] = "blocked"
    /\ shim.once = "complete"
    /\ shim' = [shim EXCEPT !.pc[t] = "idle", !.ret[t] = ShimResult]
    /\ ShimFrame

NextShim ==
    \E t \in ShimThreads :
        \/ ShimCall(t)
        \/ ShimEnter(t)
        \/ ShimBodyReturns(t)
        \/ ShimBodyPanics(t)
        \/ ShimRelease(t)

SpecShim == InitShim /\ [][NextShim]_vars

-----------------------------------------------------------------------------
(* The assembly stub as a state machine: the generated functions of a       *)
(* precompiled-stub hook run on one thread while interceptions pass through *)
(* the stub on others, one instruction of interest at a time.               *)

InitStub ==
    /\ InitHooks
    /\ make_hook_internal(attrs).is_symbol_hook

StubFrame ==
    /\ UNCHANGED btVars
    /\ UNCHANGED rtldVars
    /\ UNCHANGED hookVars
    /\ UNCHANGED shimVars

\* the hooked function is called and the engine's patch leads into the stub
StubEnter(t) ==
    /\ Compiles(attrs, expansion)
    /\ expansion.is_symbol_hook
    /\ installed
    /\ stub[t].pc = "outside"
    /\ stub' = [stub EXCEPT ![t] = [Outside EXCEPT !.pc = "entry",
                                                   !.quiet = ~is_enabled]]
    /\ StubFrame

\* ldr w16, [x16]: the is_enabled static is loaded
StubLoad(t) ==
    /\ stub[t].pc = "entry"
    /\ stub' = [stub EXCEPT ![t].pc = "loaded",
                            ![t].loads = @ + 1,
                            ![t].w16 = is_enabled]
    /\ StubFrame

\* tbz w16, #0x0: the stub goes on to the user function or to the label
StubTest(t) ==
    /\ stub[t].pc = "loaded"
    /\ stub' = [stub EXCEPT ![t].pc = tbz(stub[t].w16),
                            ![t].ran = (tbz(stub[t].w16) = "user")]
    /\ StubFrame

\* the user function returns
StubUserReturns(t) ==
    /\ stub[t].pc = "user"
    /\ stub' = [stub EXCEPT ![t].pc = AfterUser(kind)]
    /\ StubFrame

\* ldr x16, [x16]; br x16: the trampoline static is loaded and branched to
StubJump(t) ==
    /\ stub[t].pc = "jump_to_trampoline"
    /\ stub' = [stub EXCEPT ![t].pc = "outside",
                            ![t].target = {trampoline}]
    /\ StubFrame

NextStub ==
    \/ MakeHook
    \/ Install \/ Enable \/ Disable
    \/ ModuleLoaded
    \/ \E t \in Interceptions :
          \/ StubEnter(t)
          \/ StubLoad(t)
          \/ StubTest(t)
          \/ StubUserReturns(t)
          \/ StubJump(t)

SpecStub == InitStub /\ [][NextStub]_vars

-----------------------------------------------------------------------------
(* Properties of the unwinder *)

IsLimit(x) == x.tag = "Err" /\ x.err = "BacktraceLimitReached"
IsRecursive(x) == x.tag = "Err" /\ x.err = "RecursiveFramePointer"

\* the populated entries: the array up to its first None, as Display reads it
PopulatedLen(e) ==
    IF \A i \in 0..(Slots - 1) : e[i].tag # "None"
    THEN Slots
    ELSE CHOOSE n \in 0..(Slots - 1) :
            /\ e[n].tag = "None"
            /\ \A i \in 0..(n - 1) : e[i].tag # "None"

Populated(e) == [i \in 1..PopulatedLen(e) |-> e[i - 1]]

\* the stored return address of the initial frame equals current_lr
LrMatches == Deref(arg_fp).return_address = arg_lr

\* The walk cannot tell the chain from an endless one: more distinct linked
\* frames than a walk with the floor budget ever reads.
EndlessChain == arg_fp # Null /\ chainLen > MinLimit

\* C1: with limit 5 on a chain that never ends, the result holds exactly one
\* BacktraceLimitReached entry, it is the last populated entry, and at most 5
\* resolved entries precede it.
C1_LimitFiveOnEndlessChain ==
    (arg_limit = 5 /\ EndlessChain /\ bt.pc = "returned") =>
        LET p == Populated(bt.entries)
        IN  /\ Cardinality({i \in DOMAIN p : IsLimit(p[i])}) = 1
            /\ Len(p) > 0 /\ IsLimit(p[Len(p)])
            /\ Cardinality({i \in DOMAIN p : p[i].tag = "Ok"}) <= 5

\* The algorithm of Backtrace::new with a growable sequence for the entries.
RECURSIVE GrowableWalk(_, _, _, _)
GrowableWalk(fp, prev, budget, acc) ==
    IF budget = 0 THEN Append(acc, ErrEntry("BacktraceLimitReached"))
    ELSE IF fp = Null THEN acc
    ELSE IF fp = prev THEN Append(acc, ErrEntry("RecursiveFramePointer"))
    ELSE GrowableWalk(Deref(fp).previous_frame, fp, budget - 1,
                      Append(acc, BacktraceEntry_new(fp)))

GrowableNew(fp, lr, l) ==
    LET m == Deref(fp).return_address = lr
        budget == (IF l > MinLimit THEN l ELSE MinLimit) - 1
    IN  GrowableWalk(IF m THEN Deref(fp).previous_frame ELSE fp,
                     IF m THEN fp ELSE Null, budget, <<>>)

\* C2: for every limit and every chain the 33-slot array yields the entry
\* sequence of the growable algorithm: the call returns, nothing is dropped
\* and no write lands outside the array.
C2_FixedArrayEqualsGrowable ==
    (arg_fp # Null /\ Terminal(bt)) =>
        /\ bt.pc = "returned"
        /\ Populated(bt.entries) = GrowableNew(arg_fp, arg_lr, arg_limit)

\* C3: a BacktraceLimitReached entry is emitted if and only if the budget
\* reached zero while the next frame pointer is still non-null.
C3_LimitEntryIffChainNotEnded ==
    (bt.pc = "returned" /\ bt.ret = "Ok") =>
        ((\E i \in 0..(Slots - 1) : IsLimit(bt.entries[i]))
            <=> (bt.limit = 0 /\ bt.current_fp # Null))

\* the initial frame stores itself as previous_frame
SelfFrame == arg_fp = 1 /\ chainLen = 1 /\ chainTail = 1

\* C4: on a frame that stores itself as previous_frame the walk ends after at
\* most one loop step beyond the one that records the frame, never panics,
\* and the last populated entry is RecursiveFramePointer, whether or not the
\* stored return address equals current_lr.
C4_SelfFrameEndsRecursive ==
    SelfFrame =>
        /\ bt.pc # "panicked"
        /\ bt.iters <= (IF LrMatches THEN 1 ELSE 2)
        /\ (~Terminal(bt) => ENABLED NextBacktrace)
        /\ bt.pc = "returned" =>
              LET p == Populated(bt.entries)
              IN  /\ bt.ret = "Ok"
                  /\ Len(p) = (IF LrMatches THEN 1 ELSE 2)
                  /\ IsRecursive(p[Len(p)])

C4_Witness ==
    SelfFrame /\ bt.pc = "returned" /\ ~LrMatches /\ bt.iters = 2
        /\ IsRecursive(bt.entries[1])

\* C5: a null frame pointer returns InitialFPNull with no Backtrace value and
\* no entries, for every current_lr and limit, and reads no frame.
C5_NullFramePointer ==
    (arg_fp = Null /\ bt.pc # "start") =>
        /\ bt.pc = "returned"
        /\ bt.ret = "InitialFPNull"
        /\ bt.derefs = {}
        /\ bt.entries = EmptyEntries
        /\ bt.start_frame = None

C5_Witness ==
    arg_fp = Null /\ bt.pc = "returned" /\ bt.ret = "InitialFPNull"
        /\ arg_limit = 5 /\ arg_lr = 1

\* how many times the initial frame is recorded in the result
InitialFrameCount ==
    (IF bt.start_frame.tag = "Ok" /\ bt.start_frame.ptr = arg_fp THEN 1 ELSE 0)
    + Cardinality({i \in 0..(Slots - 1) :
                      bt.entries[i].tag = "Ok" /\ bt.entries[i].ptr = arg_fp})

\* C6 as stated: a current-frame entry exactly when the stored return address
\* equals current_lr, and the initial frame appears exactly once in the result.
C6_InitialFrameExactlyOnce ==
    (arg_fp # Null /\ bt.pc = "returned") =>
        /\ (bt.start_frame.tag = "Ok") <=> LrMatches
        /\ InitialFrameCount = 1

\* the chain leads back to the initial frame through at least one other frame
CyclesBackToInitial == chainTail = 1 /\ chainLen > 1

\* C6 amended: a current-frame entry exactly when the stored return address
\* equals current_lr; then the main walk starts at that frame's
\* previous_frame, otherwise at the unmodified initial frame pointer; the
\* initial frame is the current frame or the first walked entry, never both
\* and never neither, and it appears exactly once in the result unless the
\* chain cycles back to it.
C6_InitialFrameOnceUnlessCycle ==
    /\ (arg_fp # Null /\ bt.pc = "loop" /\ bt.iters = 0) =>
          /\ (bt.start_frame.tag = "Ok") <=> LrMatches
          /\ bt.current_fp = (IF LrMatches THEN Deref(arg_fp).previous_frame
                                           ELSE arg_fp)
    /\ (arg_fp # Null /\ bt.pc = "returned") =>
          /\ (bt.start_frame.tag = "Ok") <=> LrMatches
          /\ LrMatches => /\ bt.start_frame = BacktraceEntry_new(arg_fp)
                          /\ ~(bt.entries[0].tag = "Ok" /\ bt.entries[0].ptr = arg_fp)
          /\ ~LrMatches => /\ bt.start_frame = None
                           /\ bt.entries[0] = BacktraceEntry_new(arg_fp)
          /\ ~CyclesBackToInitial => InitialFrameCount = 1

C6_Witness ==
    /\ arg_fp # Null /\ bt.pc = "returned" /\ LrMatches
    /\ chainLen = 3 /\ chainTail = 2
    /\ bt.start_frame.ptr = 1 /\ bt.entries[0].ptr = 2 /\ InitialFrameCount = 1

-----------------------------------------------------------------------------
(* Properties of the module registry *)

\* the modules of a loader list, front to back
RECURSIVE ListSeq(_, _)
ListSeq(current, end) ==
    IF current = end THEN <<>>
    ELSE <<current>> \o ListSeq(modules[current].next, end)

AutoMods == ListSeq(auto_front, AutoHead)
ManualMods == ListSeq(manual_front, ManualHead)
AllMods == AutoMods \o ManualMods

\* the byte range of a module: the region of its base address
RangeOf(m) == query_memory(modules[m].module_base)

InHalfOpen(m, a) ==
    RangeOf(m).ok /\ RangeOf(m).addr <= a /\ a < RangeOf(m).addr + RangeOf(m).size

InClosed(m, a) ==
    RangeOf(m).ok /\ RangeOf(m).addr <= a /\ a <= RangeOf(m).addr + RangeOf(m).size

\* the half-open ranges of the loaded modules do not overlap
RangesDisjoint ==
    \A m1, m2 \in DOMAIN modules :
        (m1 # m2 /\ RangeOf(m1).ok /\ RangeOf(m2).ok) =>
            Disjoint(RangeOf(m1), RangeOf(m2))

\* C8: when the half-open ranges [base, base+size) of the loaded modules do
\* not overlap, find_module_for_address returns none or a module whose
\* half-open range contains the address, so no other order of the lists
\* would return another module.
C8_HalfOpenOrderIndependent ==
    (lookup.op = "find_module_for_address" /\ RangesDisjoint) =>
        /\ lookup.object = Null \/ InHalfOpen(lookup.object, lookup.address)
        /\ \A m \in DOMAIN modules :
              contains_address(m, lookup.address) => m = lookup.object

Min(S) == CHOOSE x \in S : \A y \in S : x <= y

\* C9: find_module_for_address returns the first module, auto-loaded list
\* front to back and then the manually-loaded list, whose range contains the
\* address with both bounds inclusive; a manual module only if no auto-loaded
\* module matches, and none only if no module of either list matches.
C9_FirstMatchAutoThenManual ==
    lookup.op = "find_module_for_address" =>
        LET all == AllMods
            hits == {i \in DOMAIN all : InClosed(all[i], lookup.address)}
        IN  /\ hits = {} <=> lookup.object = Null
            /\ hits # {} => lookup.object = all[Min(hits)]
            /\ (\E i \in DOMAIN ManualMods : ManualMods[i] = lookup.object) =>
                  \A j \in DOMAIN AutoMods : ~InClosed(AutoMods[j], lookup.address)

C9_Witness ==
    /\ lookup.op = "find_module_for_address"
    /\ Len(AutoMods) = 1 /\ Len(ManualMods) = 1
    /\ lookup.object = ManualMods[1]
    /\ RangeOf(AutoMods[1]).ok
    /\ lookup.address = RangeOf(lookup.object).addr + RangeOf(lookup.object).size

\* a symbol that address resolution may return
Eligible(symbol) ==
    /\ symbol.st_shndx # 0
    /\ ~(65280 <= symbol.st_shndx /\ symbol.st_shndx <= 65535)
    /\ symbol.st_info % 16 = 2

SymbolStart(m, i) == modules[m].module_base + modules[m].dynsym[i].st_value

SymbolHit(m, i, a) ==
    /\ Eligible(modules[m].dynsym[i])
    /\ SymbolStart(m, i) <= a
    /\ a <= SymbolStart(m, i) + modules[m].dynsym[i].st_size

\* C10: find_symbol_for_address returns the first symbol in table order that
\* is eligible and satisfies start <= addr <= start + size, with the returned
\* start equal to module base plus the symbol value; it returns none exactly
\* when no eligible symbol satisfies the test, and an address equal to
\* start + size of an eligible symbol resolves.
C10_FirstEligibleSymbol ==
    lookup.op = "find_symbol_for_address" =>
        LET m == lookup.module
            a == lookup.address
            hits == {i \in DOMAIN modules[m].dynsym : SymbolHit(m, i, a)}
        IN  /\ hits = {} <=> lookup.symbol = NoSymbol
            /\ hits # {} =>
                  /\ lookup.symbol.found
                  /\ lookup.symbol.start = SymbolStart(m, Min(hits))
                  /\ lookup.symbol.name = <<96 + Min(hits)>>
            /\ \A i \in DOMAIN modules[m].dynsym :
                  (/\ Eligible(modules[m].dynsym[i])
                   /\ a = SymbolStart(m, i) + modules[m].dynsym[i].st_size)
                      => lookup.symbol.found

C10_Witness ==
    /\ lookup.op = "find_symbol_for_address"
    /\ Len(modules[lookup.module].dynsym) = 2
    /\ ~Eligible(modules[lookup.module].dynsym[1])
    /\ SymbolStart(lookup.module, 1) = SymbolStart(lookup.module, 2)
    /\ modules[lookup.module].dynsym[1].st_size = MaxSymSize
    /\ modules[lookup.module].dynsym[2].st_size = MaxSymSize
    /\ lookup.address = SymbolStart(lookup.module, 2) + MaxSymSize
    /\ lookup.symbol.found
    /\ lookup.symbol.name = <<98>>

\* the table index of the symbol a lookup returned: name i is the byte 96 + i
ReturnedIndex == lookup.symbol.name[1] - 96

\* C11: find_symbol_for_address never returns a symbol whose section index
\* is 0, whose section index lies in 0xFF00..0xFFFF, or whose type (the low
\* four bits of st_info) is not 2, even when that symbol is the first of the
\* table and its range contains the address.
C11_NeverIneligibleSymbol ==
    (lookup.op = "find_symbol_for_address" /\ lookup.symbol.found) =>
        LET symbol == modules[lookup.module].dynsym[ReturnedIndex]
        IN  /\ symbol.st_shndx # 0
            /\ symbol.st_shndx \notin 65280..65535
            /\ symbol.st_info % 16 = 2

\* a reserved-index symbol leads the table and its range holds the address
C11_Witness ==
    /\ lookup.op = "find_symbol_for_address"
    /\ Len(modules[lookup.module].dynsym) >= 1
    /\ modules[lookup.module].dynsym[1].st_shndx \in 65280..65535
    /\ modules[lookup.module].dynsym[1].st_info % 16 = 2
    /\ SymbolStart(lookup.module, 1) <= lookup.address
    /\ lookup.address < SymbolStart(lookup.module, 1)
                            + modules[lookup.module].dynsym[1].st_size
    /\ lookup.symbol = NoSymbol

\* the module's name can be recovered, and is the name
Named(m, name) == get_module_name(m).some /\ get_module_name(m).name = name

\* C12: find_module_by_name(name) never returns a module whose name cannot
\* be recovered, for every query string; it returns the first module in
\* auto-then-manual order whose recovered name equals name.
C12_ByNameNeverUnrecoverable ==
    lookup.op = "find_module_by_name" =>
        LET hits == {i \in DOMAIN AllMods : Named(AllMods[i], lookup.name)}
        IN  /\ lookup.object # Null => get_module_name(lookup.object).some
            /\ hits = {} => lookup.object = Null
            /\ hits # {} => lookup.object = AllMods[Min(hits)]

-----------------------------------------------------------------------------
(* Properties of the hook macros *)

\* C13 as stated: a declaration whose target is a string literal always
\* selects the precompiled-stub strategy, whatever the keyword and whether or
\* not force_jit is given, and force_jit on it emits a compile error.
C13_StringLiteralAlwaysStub ==
    (expansion.done /\ attrs.value = "Lit::Str") =>
        /\ expansion.is_symbol_hook
        /\ attrs.force_jit => expansion.error

\* C13: under the replace keyword a string literal target always selects the
\* precompiled-stub strategy, with or without force_jit, and force_jit on it
\* emits a compile error; under the offset keyword a string literal target
\* selects direct-patch and force_jit emits the warning, not an error.
C13_StringLiteralUnderReplaceStub ==
    (expansion.done /\ attrs.value = "Lit::Str") =>
        IF attrs.key = "replace"
        THEN /\ expansion.is_symbol_hook
             /\ expansion.error <=> attrs.force_jit
             /\ ~expansion.warning
        ELSE /\ ~expansion.is_symbol_hook
             /\ expansion.warning <=> attrs.force_jit
             /\ ~expansion.error

C13_Witness ==
    /\ expansion.done
    /\ attrs.key = "replace" /\ attrs.value = "Lit::Str" /\ attrs.force_jit
    /\ expansion.is_symbol_hook
    /\ expansion.error

\* C14 as stated: a bare numeric literal under replace without force_jit
\* selects the precompiled-stub strategy, and force_jit on it is accepted
\* without a compile error.
C14_LiteralUnderReplaceStub ==
    (expansion.done /\ attrs.key = "replace" /\ attrs.value = "Lit") =>
        /\ ~attrs.force_jit => expansion.is_symbol_hook
        /\ attrs.force_jit => ~expansion.error

\* C14: a literal that is not a string, under replace, selects the
\* direct-patch strategy with or without force_jit; force_jit on it is
\* accepted without a compile error and emits the warning.
C14_LiteralUnderReplaceDirectPatch ==
    (expansion.done /\ attrs.key = "replace" /\ attrs.value = "Lit") =>
        /\ ~expansion.is_symbol_hook
        /\ ~expansion.error
        /\ expansion.warning <=> attrs.force_jit

C14_Witness ==
    /\ expansion.done
    /\ attrs.key = "replace" /\ attrs.value = "Lit" /\ ~attrs.force_jit
    /\ ~expansion.is_symbol_hook
    /\ ~expansion.warning

\* C15: a declaration using the offset keyword always selects the
\* direct-patch strategy, for every target expression (literal, string, path,
\* other) and with or without force_jit.
C15_OffsetAlwaysDirectPatch ==
    (expansion.done /\ attrs.key = "offset") => ~expansion.is_symbol_hook

C15_Witness ==
    /\ expansion.done
    /\ attrs.key = "offset" /\ attrs.value = "Path" /\ ~attrs.force_jit
    /\ ~expansion.is_symbol_hook

\* the declaration with force_jit added or removed
Toggled(a) == [a EXCEPT !.force_jit = ~a.force_jit]

\* C16: under replace with a path target the precompiled-stub strategy is
\* selected exactly when force_jit is absent and direct-patch exactly when it
\* is present; this is the only declaration shape in which force_jit changes
\* the selected strategy.
C16_PathUnderReplaceFollowsForceJit ==
    expansion.done =>
        /\ (attrs.key = "replace" /\ attrs.value = "Path") =>
              (expansion.is_symbol_hook <=> ~attrs.force_jit)
        /\ (make_hook_internal(Toggled(attrs)).is_symbol_hook
                # expansion.is_symbol_hook)
              <=> (attrs.key = "replace" /\ attrs.value = "Path")

C16_Witness ==
    /\ expansion.done
    /\ attrs.key = "replace" /\ attrs.value = "Path" /\ attrs.force_jit
    /\ ~expansion.is_symbol_hook
    /\ make_hook_internal(Toggled(attrs)).is_symbol_hook

\* the declaration needs direct-patch without being asked
RequiresDirectPatch(a) == a.key = "offset" \/ a.value \in {"Lit", "Expr"}

\* the declaration needs the stub: a string literal to replace
RequiresStub(a) == a.key = "replace" /\ a.value = "Lit::Str"

\* C17: on a declaration that already requires direct-patch, force_jit
\* produces a warning and never an error, and the strategy stays
\* direct-patch; force_jit produces an error exactly when the stub strategy
\* is required; a declaration without force_jit produces neither.
C17_ForceJitDiagnostics ==
    expansion.done =>
        /\ RequiresDirectPatch(attrs) => ~expansion.is_symbol_hook
        /\ RequiresStub(attrs) => expansion.is_symbol_hook
        /\ (attrs.force_jit /\ RequiresDirectPatch(attrs)) =>
              (expansion.warning /\ ~expansion.error)
        /\ expansion.error <=> (attrs.force_jit /\ RequiresStub(attrs))
        /\ ~attrs.force_jit => (~expansion.warning /\ ~expansion.error)

C17_Witness ==
    /\ expansion.done
    /\ attrs.key = "replace" /\ attrs.value = "Expr" /\ attrs.force_jit
    /\ expansion.warning
    /\ ~expansion.error
    /\ ~expansion.is_symbol_hook

-----------------------------------------------------------------------------
(* Properties of the generated functions *)

\* C18: call-original (original!, call_original! or original()) invoked while
\* the trampoline slot is 0 panics with a message naming the hook and never
\* transfers control through the slot; invoked while the slot is non-zero it
\* calls exactly the address stored in the slot.
C18_CallOriginalChecksSlot ==
    last.op = "call_original" =>
        IF last.before = 0
        THEN /\ last.panic.raised
             /\ last.panic.naming = base_ident
             /\ last.callee = {}
        ELSE /\ ~last.panic.raised
             /\ last.callee = {last.before}

C18_Witness ==
    /\ last.op = "call_original"
    /\ last.form = "original"
    /\ last.before = 0
    /\ last.panic = OriginalNotSet
    /\ last.callee = {}

\* the operation called the engine's install
ReachedEngine == last.calls # <<>> /\ last.calls[1].fn = "skex_hooks_install"

\* C19: the trampoline slot is 0 in every state before the first successful
\* installation; immediately after a direct-patch install() that reaches the
\* patch engine it holds the original entry the engine returned; no
\* operation other than install or the loader's deferred completion writes
\* the slot.
C19_SlotWrittenOnlyByInstall ==
    /\ ~installed => trampoline = 0
    /\ (last.op = "install" /\ ReachedEngine) =>
          last.calls[1].gives = {trampoline}
    /\ last.op \notin {"install", "completion"} => trampoline = last.before

C19_Witness ==
    /\ last.op = "install"
    /\ ReachedEngine
    /\ last.before = 0
    /\ trampoline = MaxEntry
    /\ installed

\* C20: in every state in which a deferred install of the hook is registered
\* and the loader has not completed it, call-original signals the
\* unset-trampoline condition, whatever install, uninstall, enable and
\* disable calls came before.
C20_PendingCallOriginalPanics ==
    (last.op = "call_original" /\ pending > 0) => last.panic = OriginalNotSet

\* a direct-patch hook whose target names a module by string
NamesModule ==
    /\ Compiles(attrs, expansion)
    /\ ~expansion.is_symbol_hook
    /\ attrs.key = "offset" /\ attrs.module = "ByName"

\* install() registered one deferred request and did nothing else
DeferredOnly ==
    /\ Len(last.calls) = 1
    /\ last.calls[1].fn = "skex_hooks_install_on_dynamic_load"
    /\ last.calls[1].at = Location("offset", 0)
    /\ last.calls[1].user = "user_fn"
    /\ last.calls[1].slot
    /\ last.calls[1].kind = kind
    /\ trampoline = last.before

\* install() called the engine's install once and stored what it returned
InstalledAt(location) ==
    /\ Len(last.calls) = 1
    /\ last.calls[1].fn = "skex_hooks_install"
    /\ last.calls[1].at = location
    /\ last.calls[1].user = "user_fn"
    /\ last.calls[1].gives = {trampoline}

ResolvedAddress ==
    IF static_module THEN Location("static.text[offset]", 0)
    ELSE Location("module_base + offset",
                  modules[find_module_by_name(ModuleName)].module_base)

StubHook == Compiles(attrs, expansion) /\ expansion.is_symbol_hook

\* C23: for a precompiled-stub hook the enabled flag is true initially,
\* enable() sets it to true and disable() sets it to false with no address
\* re-resolution, no call to the patch engine or loader and no possible
\* failure, in every state including before installation and after
\* uninstall; each is idempotent and the last call determines the flag.
C23_StubFlagFlips ==
    /\ last.op = "none" => is_enabled
    /\ (StubHook /\ last.op \in {"enable", "disable"}) =>
          /\ is_enabled = (last.op = "enable")
          /\ last.calls = <<>>
          /\ ~last.panic.raised
    /\ StubHook => is_enabled = flag_set

\* a second disable() in a row, before any installation
C23_Witness ==
    /\ StubHook
    /\ last.op = "disable"
    /\ ~last.was_enabled
    /\ ~is_enabled
    /\ ~installed /\ pending = 0

\* C24: enable() and disable() of either strategy never change the
\* trampoline slot, and install() and uninstall() never change the enabled
\* flag: after any sequence of the four the slot equals the value written by
\* the last install or deferred completion and the flag equals the value set
\* by the last enable or disable (true if none).
C24_SlotAndFlagIndependent ==
    /\ last.op \in {"enable", "disable"} => trampoline = last.before
    /\ last.op \in {"install", "uninstall"} => is_enabled = last.was_enabled
    /\ trampoline = written
    /\ is_enabled = flag_set

\* install() of a disabled stub hook stores the entry and leaves it disabled
C24_Witness ==
    /\ StubHook
    /\ last.op = "install"
    /\ ~last.was_enabled /\ ~is_enabled
    /\ last.before # trampoline
    /\ trampoline = written

-----------------------------------------------------------------------------
(* Properties of the run-once shim *)

\* C25: over any number of invocations from any interleaving of threads the
\* user's statements are executed at most once; every invocation of a shim
\* with a return type returns the value that one execution computed; an
\* invocation of a shim without a return type that begins after the first
\* one completed does not execute the statements
C25_BodyRunsOnce ==
    /\ shim.runs <= 1
    /\ Cardinality({t \in ShimThreads : shim.pc[t] = "body"}) <= 1
    /\ \A t \in ShimThreads :
          /\ shim.ret[t] # 0 =>
                shim.returns_value /\ shim.once = "complete"
                                   /\ shim.ret[t] = shim.cell
          /\ shim.late[t] => shim.pc[t] # "body"

\* two threads have called a value-returning shim at the same time, one of
\* them ran the statements and both have returned its value
C25_Witness ==
    /\ shim.returns_value
    /\ shim.runs = 1
    /\ \A t \in ShimThreads : shim.pc[t] = "idle" /\ shim.ret[t] = shim.cell
    /\ shim.cell # 0
    /\ \E t \in ShimThreads : ~shim.late[t]
    /\ Cardinality({t \in ShimThreads : ~shim.late[t]}) >= 2

-----------------------------------------------------------------------------
(* Properties of the formatted entries *)

\* the number the hexadecimal digits stand for
RECURSIVE ParseHex(_)
ParseHex(digits) ==
    IF digits = <<>> THEN 0
    ELSE 16 * ParseHex(SubSeq(digits, 1, Len(digits) - 1))
            + (CHOOSE d \in 0..15 : HexDigit[d + 1] = digits[Len(digits)])

\* the number behind the 0x of {:#x}
ParseAlternate(digits) == ParseHex(SubSeq(digits, 3, Len(digits)))

IsAlternateHex(digits) ==
    Len(digits) >= 3 /\ digits[1] = "0" /\ digits[2] = "x"

Formatted == lookup.op = "get_formatted_addr_"

\* C26: for an address for which find_module_for_address returns a module
\* and find_symbol_for_address returns a symbol, the formatted entry holds
\* the module's name, a module offset, the symbol's name and a symbol offset
\* with address = module base + module offset = symbol start + symbol
\* offset, neither subtraction having underflowed; if no module is found
\* the entry is the bare hexadecimal address
C26_FormattedEntryRoundTrips ==
    Formatted =>
        /\ Len(lookup.entry.address) = 16
        /\ ParseHex(lookup.entry.address) = lookup.address
        /\ (lookup.object # Null /\ lookup.symbol.found) =>
              /\ lookup.entry.module =
                    (IF get_module_name(lookup.object).some
                     THEN get_module_name(lookup.object).name
                     ELSE <<"unknown">>)
              /\ lookup.entry.symbol = lookup.symbol.name
              /\ IsAlternateHex(lookup.entry.module_offset)
              /\ IsAlternateHex(lookup.entry.symbol_offset)
              /\ lookup.address = modules[lookup.object].module_base
                                    + ParseAlternate(lookup.entry.module_offset)
              /\ lookup.address = lookup.symbol.start
                                    + ParseAlternate(lookup.entry.symbol_offset)
        /\ lookup.object = Null =>
              lookup.entry = [NoEntry EXCEPT !.address = lookup.entry.address]

\* an address inside a named module, past the start of the symbol that
\* holds it, has been formatted
C26_Witness ==
    /\ Formatted
    /\ lookup.object # Null
    /\ lookup.symbol.found
    /\ get_module_name(lookup.object).some
    /\ lookup.address > lookup.symbol.start
    /\ lookup.symbol.start > modules[lookup.object].module_base

-----------------------------------------------------------------------------
(* Properties of the assembly stub *)

\* the interception is past the test of the flag
Tested(i) == i.loads >= 1 /\ i.pc # "loaded"

\* C27: each interception of a precompiled-stub hook loads the enabled flag
\* exactly once, at stub entry; if it loaded false the user function is not
\* executed and the stub branches to what the trampoline slot holds, if it
\* loaded true the user function runs; so an interception that begins after
\* disable() has returned and before the next enable() does not run the
\* user function
C27_FlagReadOnceAtEntry ==
    \A t \in Interceptions :
        LET i == stub[t]
        IN  /\ i.loads <= 1
            /\ i.pc \in {"loaded", "user", "jump_to_trampoline"} => i.loads = 1
            /\ i.pc = "user" => i.ran
            /\ i.ran => i.loads = 1 /\ i.w16
            /\ Tested(i) => (i.ran <=> i.w16)
            /\ (Tested(i) /\ ~i.w16 /\ i.pc = "outside") =>
                  Cardinality(i.target) = 1
            /\ i.target # {} => i.loads = 1
            /\ i.quiet => ~i.ran

\* an interception loaded the flag, disable() then returned, and the
\* interception is inside the user function all the same
C27_Witness ==
    \E t \in Interceptions :
        /\ stub[t].pc = "user"
        /\ last.op = "disable"
        /\ ~is_enabled
        /\ ~stub[t].quiet

-----------------------------------------------------------------------------
(* Properties of uninstall() *)

\* what install() would hand to the engine as the replacement
RegisteredIdentities ==
    LET out == IF expansion.is_symbol_hook THEN symbol_install(0)
               ELSE jit_install(0)
    IN  {out.calls[i].user : i \in DOMAIN out.calls}

\* C28: uninstall() makes one call, the engine operation of the hook's
\* strategy (skex_hooks_uninstall with the user function for a direct-patch
\* hook, skex_hooks_uninstall_from_symbol with the assembly stub for a
\* precompiled-stub hook), handing it the identity install() registers as
\* the replacement; it leaves the trampoline slot as it was, so that
\* call-original after it finds a slot that was set still set
C28_UninstallKeepsSlot ==
    last.op = "uninstall" =>
        /\ Len(last.calls) = 1
        /\ last.calls[1].fn = (IF expansion.is_symbol_hook
                               THEN "skex_hooks_uninstall_from_symbol"
                               ELSE "skex_hooks_uninstall")
        /\ last.calls[1].user = (IF expansion.is_symbol_hook
                                 THEN "manual_ident" ELSE "user_fn")
        /\ RegisteredIdentities = {last.calls[1].user}
        /\ last.calls[1].gives = {}
        /\ last.panic = NoPanic
        /\ trampoline = last.before
        /\ is_enabled = last.was_enabled
        /\ last.before # 0 =>
              original.panic = NoPanic /\ original.callee = {last.before}

\* an installed direct-patch hook with its slot set has been uninstalled
C28_Witness ==
    /\ last.op = "uninstall"
    /\ ~expansion.is_symbol_hook
    /\ installed
    /\ last.before # 0
    /\ trampoline # 0

-----------------------------------------------------------------------------
(* Further properties of the unwinder *)

\* the chain runs into a cycle of two or more frames
CycleOfTwoOrMore == arg_fp # Null /\ chainTail # Null /\ chainTail < chainLen

\* the loop body has been entered at most max(limit, 32) - 1 times
WithinBudget == bt.iters <= ClampLimit(arg_limit) - 1

\* C29: Backtrace::new comes to an end on every frame-pointer graph; the
\* loop runs at most max(limit, 32) - 1 times, and on a cycle of two or more
\* frames the call returns a result whose last populated entry is
\* BacktraceLimitReached
C29_CycleEndsWithLimitReached ==
    /\ WithinBudget
    /\ (CycleOfTwoOrMore /\ Terminal(bt)) =>
          /\ bt.pc = "returned"
          /\ bt.ret = "Ok"
          /\ LET p == Populated(bt.entries)
             IN  Len(p) > 0 /\ IsLimit(p[Len(p)])

\* the slots of the array that hold an error
ErrorSlots == {i \in 0..(Slots - 1) : bt.entries[i].tag = "Err"}

\* C30: in every Backtrace that Backtrace::new returns the populated entries
\* are a contiguous prefix of the array, at most one of them is an error, and
\* an error is the last populated entry: RecursiveFramePointer and
\* BacktraceLimitReached never both appear and no resolved entry follows an
\* error
C30_OneErrorAtTheEnd ==
    (bt.pc = "returned" /\ bt.ret = "Ok") =>
        /\ \A i \in 0..(Slots - 1) :
              bt.entries[i].tag # "None" =>
                  \A j \in 0..(i - 1) : bt.entries[j].tag # "None"
        /\ Cardinality(ErrorSlots) <= 1
        /\ \A i \in ErrorSlots :
              /\ i = PopulatedLen(bt.entries) - 1
              /\ \A j \in (i + 1)..(Slots - 1) : bt.entries[j].tag = "None"
        /\ ~(/\ \E i \in 0..(Slots - 1) : IsRecursive(bt.entries[i])
             /\ \E i \in 0..(Slots - 1) : IsLimit(bt.entries[i]))

\* a walk has returned resolved entries followed by RecursiveFramePointer
C30_Witness ==
    /\ bt.pc = "returned"
    /\ bt.ret = "Ok"
    /\ PopulatedLen(bt.entries) >= 3
    /\ IsRecursive(bt.entries[PopulatedLen(bt.entries) - 1])
    /\ bt.entries[0].tag = "Ok"

====
